---- MODULE Spec2Model ----
(***************************************************************************)
(* mkdf: password-based master key derivation and verification             *)
(* (src/src/main.rs).  One behaviour of this module is one invocation of   *)
(* the program: the command line is fixed in the initial state, standard   *)
(* input is consumed by readpw, and the process ends with an exit code.    *)
(*                                                                         *)
(* Strings and byte buffers are sequences of byte values (ASCII codes);    *)
(* an Option<T> is the empty sequence (None) or a one-element sequence     *)
(* (Some).  The yescrypt primitive is a collision-free black box: the      *)
(* digest of (input, salt, params) is the injective encoding of that       *)
(* triple.                                                                 *)
(***************************************************************************)
EXTENDS Integers, Sequences, FiniteSets, TLC

(* ------------------------------ bounds --------------------------------- *)

\* longest byte stream offered on standard input
MaxPwLen == 2

\* number of distinct well-formed salts the environment can supply
NumSalts == 2

(* ------------------------- program constants --------------------------- *)

SaltLen == 16
HexLen == 32
ExitOk == 0
ExitUsage == 64
ExitIo == 2
\* clap's Error::exit() on a usage error raised inside Args::parse()
ExitClap == 2
\* a Rust process whose main thread panics ends with status 101
ExitPanic == 101
\* no exit code yet: the process is running
Running == -1

\* yescrypt::Params::new_with_all_params(Mode::default(), N, r, p, 0, 0)
AuthParams == <<2048, 8, 1>>
ProtParams == <<32768, 32, 1>>

None == <<>>
Some(x) == <<x>>
IsSome(o) == o # <<>>
Unwrap(o) == o[1]

LF == 10
CR == 13

(* ------------------------------ helpers -------------------------------- *)

\* all sequences over S of length at most n
RECURSIVE SeqsUpTo(_, _)
SeqsUpTo(S, n) ==
  IF n = 0 THEN {<<>>}
  ELSE LET shorter == SeqsUpTo(S, n - 1)
       IN  shorter \cup {Append(s, x) : s \in {t \in shorter : Len(t) = n - 1}, x \in S}

Last(s) == s[Len(s)]

\* "{:02x}" of one byte: two lowercase hexadecimal digits
HexDigit(n) == IF n < 10 THEN 48 + n ELSE 87 + n

\* mutant of FormatByte: "{:x}", without the zero padding
FormatByte_nopad(b) ==
  IF b < 16 THEN <<HexDigit(b)>> ELSE <<HexDigit(b \div 16), HexDigit(b % 16)>>

FormatByte(b) == <<HexDigit(b \div 16), HexDigit(b % 16)>>

\* for b in salt { print!("{:02x}", b); } println!();
RECURSIVE HexLine(_)
HexLine(bytes) ==
  IF bytes = <<>> THEN <<>>
  ELSE FormatByte(bytes[1]) \o HexLine(Tail(bytes))

\* char::to_digit(16): -1 stands for None
DigitVal(c) ==
  IF c >= 48 /\ c <= 57 THEN c - 48
  ELSE IF c >= 97 /\ c <= 102 THEN c - 87
  ELSE IF c >= 65 /\ c <= 70 THEN c - 55
  ELSE -1

\* u8::from_str_radix(src, 16) on a two-byte slice: -1 stands for Err.
\* A leading '+' is taken as a sign, a leading '-' is an invalid digit.
from_str_radix(src) ==
  LET digits == IF src[1] = 43 THEN Tail(src) ELSE src
      d1 == DigitVal(digits[1])
  IN  IF Len(digits) = 1
      THEN d1
      ELSE LET d2 == DigitVal(digits[2])
           IN  IF d1 < 0 \/ d2 < 0 THEN -1 ELSE 16 * d1 + d2

\* get_salt: the sixteen parsed bytes; PanicValue when an unwrap() fails
PanicValue == <<-1>>

\* mutant of get_salt: the two digits of each byte taken in the wrong order
get_salt_swapped(salt) ==
  LET parsed == [i \in 1..SaltLen |->
                   IF 2 * i > Len(salt) THEN -1
                   ELSE from_str_radix(<<salt[2 * i], salt[2 * i - 1]>>)]
  IN  IF \E i \in 1..SaltLen : parsed[i] < 0 THEN PanicValue ELSE parsed

get_salt(salt) ==
  LET parsed == [i \in 1..SaltLen |->
                   IF 2 * i > Len(salt) THEN -1   \* slice index out of range
                   ELSE from_str_radix(SubSeq(salt, 2 * i - 1, 2 * i))]
  IN  IF \E i \in 1..SaltLen : parsed[i] < 0 THEN PanicValue ELSE parsed

\* readpw: pop trailing '\n' and '\r' bytes
RECURSIVE StripTrailing(_)
StripTrailing(buf) ==
  IF buf # <<>> /\ Last(buf) \in {LF, CR}
  THEN StripTrailing(SubSeq(buf, 1, Len(buf) - 1))
  ELSE buf

\* Yescrypt.hash_password_with_params: the encoded hash as its fields
\* (algorithm tag, parameters, salt, digest)
Digest(input, salt, params) == params \o salt \o input
YescryptFields(input, salt, params) ==
  << <<121>>, params, salt, Digest(input, salt, params) >>

\* mutant of generate_hash_mk: the Protection parameters in place of the
\* Authentication ones
generate_hash_mk_prot(password, salt) == Last(YescryptFields(password, salt, ProtParams))

generate_hash_mk(password, salt) == Last(YescryptFields(password, salt, AuthParams))

derive_dpk(password, salt) == Last(YescryptFields(password, salt, ProtParams))

(* ------------------------- the environment ----------------------------- *)

\* the k-th well-formed salt
SaltOf(k) == [i \in 1..SaltLen |-> (k * (154 + 17 * i)) % 256]
Salts == {SaltOf(k) : k \in 0..(NumSalts - 1)}

Zeros(n) == [i \in 1..n |-> 48]
ShortStr == Zeros(HexLen - 1)
LongStr == Zeros(HexLen + 1)
\* 'g' in the last position
NonHexStr == Zeros(HexLen - 1) \o <<103>>
\* "+f" as the first byte
PlusStr == <<43, 102>> \o Zeros(HexLen - 2)

SaltStrings == {HexLine(s) : s \in Salts} \cup {ShortStr, LongStr, NonHexStr, PlusStr}
SaltArgs == {None} \cup {Some(s) : s \in SaltStrings}

StdinBytes == {97, LF, CR}
\* a longer stream: a line feed inside it, a CR LF LF run at its end
LongStdin == <<97, LF, 97, CR, LF, LF>>
Stdins == SeqsUpTo(StdinBytes, MaxPwLen) \cup {LongStdin}

\* passwords whose stored verifier the environment may present
RefPasswords == {<<97>>}
Garbage == <<120>>
PhashStrings ==
  {generate_hash_mk(generate_hash_mk(p, x), y) : p \in RefPasswords, x \in Salts, y \in Salts}
    \cup {Garbage}
PhashArgs == {None} \cup {Some(h) : h \in PhashStrings}

MatchLine == <<77, 97, 116, 99, 104>>
MismatchLine == <<77, 105, 115, 109, 97, 116, 99, 104>>

(* ------------------------------- state --------------------------------- *)

VARIABLES
  args,       \* the command line: hash, verify, s1, s2, s3, phash
  pc,         \* position of the main thread
  exitCode,   \* Running, or the status the process ended with
  stdinState, \* standard input: "unread", "read", "failed"
  stdin,      \* the bytes read_to_end took from standard input
  password,   \* readpw's result
  task,       \* the three salt jobs of a join: "idle", "pending", "done",
              \* "panicked" (get_salt), "failed" (generate_salt)
  salt,       \* salt1, salt2, salt3 (<<>> until produced)
  mk,         \* the master key digest
  derive,     \* the two jobs of hash mode's second join
  hash_mk,    \* the verifier digest
  dpk,        \* the protection key digest
  cmp,        \* verify mode's comparison: "none", "equal", "unequal"
  cmpWork,    \* the bytes the comparison examined
  kdfCalls,   \* every KDF call made, in order of its start
  stdout      \* the lines written to standard output

vars == <<args, pc, exitCode, stdinState, stdin, password, task, salt, mk,
          derive, hash_mk, dpk, cmp, cmpWork, kdfCalls, stdout>>

\* one KDF call: the function called, its arguments, the profile it ran
\* with and the digest it returns
KdfCall(fn, input, s) ==
  [fn |-> fn, input |-> input, salt |-> s,
   params |-> IF fn = "generate_hash_mk" THEN AuthParams ELSE ProtParams,
   out |-> IF fn = "generate_hash_mk" THEN generate_hash_mk(input, s)
           ELSE derive_dpk(input, s)]

Init ==
  /\ args \in [hash : BOOLEAN, verify : BOOLEAN,
               s1 : SaltArgs, s2 : SaltArgs, s3 : SaltArgs, phash : PhashArgs]
  /\ pc = "parse"
  /\ exitCode = Running
  /\ stdinState = "unread"
  /\ stdin = <<>>
  /\ password = <<>>
  /\ task = [i \in 1..3 |-> "idle"]
  /\ salt = [i \in 1..3 |-> <<>>]
  /\ mk = <<>>
  /\ derive = [hash_mk |-> "idle", dpk |-> "idle"]
  /\ hash_mk = <<>>
  /\ dpk = <<>>
  /\ cmp = "none"
  /\ cmpWork = 0
  /\ kdfCalls = <<>>
  /\ stdout = <<>>

Exit(code) ==
  /\ pc' = "exited"
  /\ exitCode' = code

(* ------------------------------- main ---------------------------------- *)

\* Args::parse(): clap enforces conflicts_with and requires before main's
\* own checks run, and exits the process itself on a violation
ClapConflict(a) == a.hash /\ a.verify
ClapMissingRequired(a) ==
  /\ ~a.verify
  /\ IsSome(a.s1) \/ IsSome(a.s2) \/ IsSome(a.s3) \/ IsSome(a.phash)

ArgsParse ==
  /\ pc = "parse"
  /\ IF ClapConflict(args) \/ ClapMissingRequired(args)
     THEN Exit(ExitClap)
     ELSE pc' = "modecheck" /\ UNCHANGED exitCode
  /\ UNCHANGED <<args, stdinState, stdin, password, task, salt, mk, derive, hash_mk,
                 dpk, cmp, cmpWork, kdfCalls, stdout>>

\* if args.hash && args.verify {..exit(64)} else if !args.hash && !args.verify {..exit(64)}
ModeCheck ==
  /\ pc = "modecheck"
  /\ IF (args.hash /\ args.verify) \/ (~args.hash /\ ~args.verify)
     THEN Exit(ExitUsage)
     ELSE pc' = "readpw" /\ UNCHANGED exitCode
  /\ UNCHANGED <<args, stdinState, stdin, password, task, salt, mk, derive, hash_mk,
                 dpk, cmp, cmpWork, kdfCalls, stdout>>

\* mutant of readpw: a single trailing line feed is removed
readpw_one(buf) ==
  IF buf # <<>> /\ Last(buf) = LF THEN SubSeq(buf, 1, Len(buf) - 1) ELSE buf

\* readpw(): read standard input to its end and strip the trailing newlines
readpw(buf) == StripTrailing(buf)

ReadPw ==
  /\ pc = "readpw"
  /\ \/ \E buf \in Stdins :
          /\ stdinState' = "read"
          /\ stdin' = buf
          /\ password' = readpw(buf)
          /\ pc' = IF args.hash THEN "hash_password" ELSE "v_unwrap"
          /\ UNCHANGED exitCode
     \/ \* read_to_end fails
        /\ stdinState' = "failed"
        /\ Exit(ExitIo)
        /\ UNCHANGED <<stdin, password>>
  /\ UNCHANGED <<args, task, salt, mk, derive, hash_mk, dpk, cmp, cmpWork, kdfCalls, stdout>>

(* ---------------------------- verify mode ------------------------------ *)

\* let (s1, s2, s3) = (args.s1.unwrap(), args.s2.unwrap(), args.s3.unwrap());
VerifyUnwrapSalts ==
  /\ pc = "v_unwrap"
  /\ IF IsSome(args.s1) /\ IsSome(args.s2) /\ IsSome(args.s3)
     THEN pc' = "v_len" /\ UNCHANGED exitCode
     ELSE Exit(ExitPanic)
  /\ UNCHANGED <<args, stdinState, stdin, password, task, salt, mk, derive, hash_mk,
                 dpk, cmp, cmpWork, kdfCalls, stdout>>

\* mutant of BadLength: only the first salt's length is checked
BadLength_first(a) == Len(Unwrap(a.s1)) # HexLen

BadLength(a) ==
  \/ Len(Unwrap(a.s1)) # HexLen
  \/ Len(Unwrap(a.s2)) # HexLen
  \/ Len(Unwrap(a.s3)) # HexLen

\* the length check, then the fork of the three get_salt jobs
VerifyCheckLen ==
  /\ pc = "v_len"
  /\ IF BadLength(args)
     THEN Exit(ExitUsage) /\ UNCHANGED task
     ELSE /\ pc' = "v_salts"
          /\ task' = [i \in 1..3 |-> "pending"]
          /\ UNCHANGED exitCode
  /\ UNCHANGED <<args, stdinState, stdin, password, salt, mk, derive, hash_mk,
                 dpk, cmp, cmpWork, kdfCalls, stdout>>

SaltArg(i) == Unwrap(IF i = 1 THEN args.s1 ELSE IF i = 2 THEN args.s2 ELSE args.s3)

\* one get_salt job of the join; a failed unwrap() panics the job
GetSalt(i) ==
  /\ pc = "v_salts"
  /\ task[i] = "pending"
  /\ LET s == get_salt(SaltArg(i))
     IN  IF s = PanicValue
         THEN task' = [task EXCEPT ![i] = "panicked"] /\ UNCHANGED salt
         ELSE task' = [task EXCEPT ![i] = "done"] /\ salt' = [salt EXCEPT ![i] = s]
  /\ UNCHANGED <<args, pc, exitCode, stdinState, stdin, password, mk, derive, hash_mk,
                 dpk, cmp, cmpWork, kdfCalls, stdout>>

\* join returns once its jobs have ended, and resumes a job's panic
VerifyJoinSalts ==
  /\ pc = "v_salts"
  /\ \A i \in 1..3 : task[i] \in {"done", "panicked"}
  /\ IF \E i \in 1..3 : task[i] = "panicked"
     THEN Exit(ExitPanic)
     ELSE pc' = "v_phash" /\ UNCHANGED exitCode
  /\ UNCHANGED <<args, stdinState, stdin, password, task, salt, mk, derive, hash_mk,
                 dpk, cmp, cmpWork, kdfCalls, stdout>>

\* args.phash.unwrap().as_str()
VerifyUnwrapPhash ==
  /\ pc = "v_phash"
  /\ IF IsSome(args.phash)
     THEN pc' = "v_mk" /\ UNCHANGED exitCode
     ELSE Exit(ExitPanic)
  /\ UNCHANGED <<args, stdinState, stdin, password, task, salt, mk, derive, hash_mk,
                 dpk, cmp, cmpWork, kdfCalls, stdout>>

\* let mk = generate_hash_mk(password, salt1);
VerifyMK ==
  /\ pc = "v_mk"
  /\ kdfCalls' = Append(kdfCalls, KdfCall("generate_hash_mk", password, salt[1]))
  /\ mk' = Last(kdfCalls').out
  /\ pc' = "v_hashmk"
  /\ UNCHANGED <<args, exitCode, stdinState, stdin, password, task, salt, derive,
                 hash_mk, dpk, cmp, cmpWork, stdout>>

\* mutant of VerifyHashMK: the verifier is derived under salt3
VerifyHashMK_salt3 ==
  /\ pc = "v_hashmk"
  /\ kdfCalls' = Append(kdfCalls, KdfCall("generate_hash_mk", mk, salt[3]))
  /\ hash_mk' = Last(kdfCalls').out
  /\ pc' = "v_cmp"
  /\ UNCHANGED <<args, exitCode, stdinState, stdin, password, task, salt, mk,
                 derive, dpk, cmp, cmpWork, stdout>>

\* mutant of VerifyHashMK: the protection key is derived ahead of the comparison
VerifyHashMK_eager ==
  /\ pc = "v_hashmk"
  /\ kdfCalls' = kdfCalls \o <<KdfCall("generate_hash_mk", mk, salt[2]),
                                KdfCall("derive_dpk", password, salt[3])>>
  /\ hash_mk' = generate_hash_mk(mk, salt[2])
  /\ dpk' = derive_dpk(password, salt[3])
  /\ pc' = "v_cmp"
  /\ UNCHANGED <<args, exitCode, stdinState, stdin, password, task, salt, mk, derive,
                 cmp, cmpWork, stdout>>

\* let hash_mk = generate_hash_mk(mk.as_bytes(), salt2);
VerifyHashMK ==
  /\ pc = "v_hashmk"
  /\ kdfCalls' = Append(kdfCalls, KdfCall("generate_hash_mk", mk, salt[2]))
  /\ hash_mk' = Last(kdfCalls').out
  /\ pc' = "v_cmp"
  /\ UNCHANGED <<args, exitCode, stdinState, stdin, password, task, salt, mk, derive,
                 dpk, cmp, cmpWork, stdout>>

\* mutant of hash_matches: hash_mk.starts_with(phash) instead of equality
hash_matches_prefix(h, phash) ==
  Len(phash) <= Len(h) /\ SubSeq(h, 1, Len(phash)) = phash

\* if hash_mk == phash
hash_matches(h, phash) == h = phash

\* the number of leading bytes on which a and b agree
CommonPrefixLen(a, b) ==
  LET n == IF Len(a) < Len(b) THEN Len(a) ELSE Len(b)
      diff == {i \in 1..n : a[i] # b[i]}
  IN  IF diff = {} THEN n
      ELSE (CHOOSE i \in diff : \A j \in diff : i <= j) - 1

\* String == &str is the slices' equality: the lengths are compared, and
\* only if they agree the bytes are compared by memcmp, which stops at a
\* difference.  The bytes it may have examined by then: those up to the
\* first differing byte, or more when it reads whole words.
EqExamined(a, b) ==
  IF Len(a) # Len(b) THEN {0}
  ELSE IF a = b THEN {Len(a)}
  ELSE (CommonPrefixLen(a, b) + 1)..Len(a)

VerifyCompare ==
  /\ pc = "v_cmp"
  /\ cmp' = IF hash_matches(hash_mk, Unwrap(args.phash)) THEN "equal" ELSE "unequal"
  /\ pc' = IF cmp' = "equal" THEN "v_match" ELSE "v_mismatch"
  /\ \E w \in EqExamined(hash_mk, Unwrap(args.phash)) : cmpWork' = w
  /\ UNCHANGED <<args, exitCode, stdinState, stdin, password, task, salt, mk, derive,
                 hash_mk, dpk, kdfCalls, stdout>>

\* println!("Match");
VerifyPrintMatch ==
  /\ pc = "v_match"
  /\ stdout' = Append(stdout, MatchLine)
  /\ pc' = "v_dpk"
  /\ UNCHANGED <<args, exitCode, stdinState, stdin, password, task, salt, mk, derive,
                 hash_mk, dpk, cmp, cmpWork, kdfCalls>>

\* mutant of VerifyDPK: the protection key is derived from the master key
VerifyDPK_mk ==
  /\ pc = "v_dpk"
  /\ kdfCalls' = Append(kdfCalls, KdfCall("derive_dpk", mk, salt[3]))
  /\ dpk' = Last(kdfCalls').out
  /\ pc' = "v_printdpk"
  /\ UNCHANGED <<args, exitCode, stdinState, stdin, password, task, salt, mk,
                 derive, hash_mk, cmp, cmpWork, stdout>>

\* let dpk = derive_dpk(password, salt3);
VerifyDPK ==
  /\ pc = "v_dpk"
  /\ kdfCalls' = Append(kdfCalls, KdfCall("derive_dpk", password, salt[3]))
  /\ dpk' = Last(kdfCalls').out
  /\ pc' = "v_printdpk"
  /\ UNCHANGED <<args, exitCode, stdinState, stdin, password, task, salt, mk, derive,
                 hash_mk, cmp, cmpWork, stdout>>

\* println!("{}", dpk);
VerifyPrintDPK ==
  /\ pc = "v_printdpk"
  /\ stdout' = Append(stdout, dpk)
  /\ pc' = "v_ret"
  /\ UNCHANGED <<args, exitCode, stdinState, stdin, password, task, salt, mk, derive,
                 hash_mk, dpk, cmp, cmpWork, kdfCalls>>

\* mutant of VerifyPrintMismatch: a mismatch ends the process with a failure status
VerifyPrintMismatch_fail ==
  /\ pc = "v_mismatch"
  /\ stdout' = Append(stdout, MismatchLine)
  /\ Exit(1)
  /\ UNCHANGED <<args, stdinState, stdin, password, task, salt, mk, derive,
                 hash_mk, dpk, cmp, cmpWork, kdfCalls>>

\* println!("Mismatch");
VerifyPrintMismatch ==
  /\ pc = "v_mismatch"
  /\ stdout' = Append(stdout, MismatchLine)
  /\ pc' = "v_ret"
  /\ UNCHANGED <<args, exitCode, stdinState, stdin, password, task, salt, mk, derive,
                 hash_mk, dpk, cmp, cmpWork, kdfCalls>>

\* verify_password returns; std::process::exit(0)
VerifyReturn ==
  /\ pc = "v_ret"
  /\ Exit(ExitOk)
  /\ UNCHANGED <<args, stdinState, stdin, password, task, salt, mk, derive, hash_mk,
                 dpk, cmp, cmpWork, kdfCalls, stdout>>

(* ----------------------------- hash mode ------------------------------- *)

\* join(|| generate_salt(), || join(|| generate_salt(), || generate_salt()))
HashForkSalts ==
  /\ pc = "hash_password"
  /\ task' = [i \in 1..3 |-> "pending"]
  /\ pc' = "h_salts"
  /\ UNCHANGED <<args, exitCode, stdinState, stdin, password, salt, mk, derive,
                 hash_mk, dpk, cmp, cmpWork, kdfCalls, stdout>>

\* mutant of GenerateSalt: on an entropy failure the job returns the zeroed
\* array instead of ending the process
GenerateSalt_fallback(i) ==
  /\ pc = "h_salts"
  /\ task[i] = "pending"
  /\ \/ \E s \in Salts :
          /\ salt' = [salt EXCEPT ![i] = s]
          /\ task' = [task EXCEPT ![i] = "done"]
     \/ /\ salt' = [salt EXCEPT ![i] = [j \in 1..SaltLen |-> 0]]
        /\ task' = [task EXCEPT ![i] = "failed"]
  /\ UNCHANGED <<args, pc, exitCode, stdinState, stdin, password, mk, derive,
                 hash_mk, dpk, cmp, cmpWork, kdfCalls, stdout>>

\* generate_salt: OsRng.try_fill_bytes fills the array, or the job ends the
\* process with exit(2)
GenerateSalt(i) ==
  /\ pc = "h_salts"
  /\ task[i] = "pending"
  /\ \/ \E s \in Salts :
          /\ salt' = [salt EXCEPT ![i] = s]
          /\ task' = [task EXCEPT ![i] = "done"]
          /\ UNCHANGED <<pc, exitCode>>
     \/ /\ task' = [task EXCEPT ![i] = "failed"]
        /\ Exit(ExitIo)
        /\ UNCHANGED salt
  /\ UNCHANGED <<args, stdinState, stdin, password, mk, derive, hash_mk, dpk, cmp, cmpWork,
                 kdfCalls, stdout>>

\* mutant of HashMK: salt1 is printed before the master key is derived
HashMK_printfirst ==
  /\ pc = "h_salts"
  /\ \A i \in 1..3 : task[i] = "done"
  /\ stdout' = Append(stdout, HexLine(salt[1]))
  /\ pc' = "h_print1"
  /\ UNCHANGED <<args, exitCode, stdinState, stdin, password, task, salt, mk,
                 derive, hash_mk, dpk, cmp, cmpWork, kdfCalls>>

\* the join has returned; let mk = generate_hash_mk(&password, &salt1);
HashMK ==
  /\ pc = "h_salts"
  /\ \A i \in 1..3 : task[i] = "done"
  /\ kdfCalls' = Append(kdfCalls, KdfCall("generate_hash_mk", password, salt[1]))
  /\ mk' = Last(kdfCalls').out
  /\ pc' = "h_print1"
  /\ UNCHANGED <<args, exitCode, stdinState, stdin, password, task, salt, derive,
                 hash_mk, dpk, cmp, cmpWork, stdout>>

\* for b in salt1 { print!("{:02x}", b); } println!();
\* then the fork of the two derivations
HashPrintSalt1 ==
  /\ pc = "h_print1"
  /\ stdout' = Append(stdout, HexLine(salt[1]))
  /\ derive' = [hash_mk |-> "pending", dpk |-> "pending"]
  /\ pc' = "h_derive"
  /\ UNCHANGED <<args, exitCode, stdinState, stdin, password, task, salt, mk,
                 hash_mk, dpk, cmp, cmpWork, kdfCalls>>

\* || generate_hash_mk(mk.as_bytes(), &salt2)
HashDeriveHashMKStart ==
  /\ pc = "h_derive"
  /\ derive.hash_mk = "pending"
  /\ kdfCalls' = Append(kdfCalls, KdfCall("generate_hash_mk", mk, salt[2]))
  /\ derive' = [derive EXCEPT !.hash_mk = "running"]
  /\ UNCHANGED <<args, pc, exitCode, stdinState, stdin, password, task, salt, mk,
                 hash_mk, dpk, cmp, cmpWork, stdout>>

HashDeriveHashMKEnd ==
  /\ pc = "h_derive"
  /\ derive.hash_mk = "running"
  /\ hash_mk' = generate_hash_mk(mk, salt[2])
  /\ derive' = [derive EXCEPT !.hash_mk = "done"]
  /\ UNCHANGED <<args, pc, exitCode, stdinState, stdin, password, task, salt, mk,
                 dpk, cmp, cmpWork, kdfCalls, stdout>>

\* || derive_dpk(mk.as_bytes(), &salt3)
HashDeriveDPKStart ==
  /\ pc = "h_derive"
  /\ derive.dpk = "pending"
  /\ kdfCalls' = Append(kdfCalls, KdfCall("derive_dpk", mk, salt[3]))
  /\ derive' = [derive EXCEPT !.dpk = "running"]
  /\ UNCHANGED <<args, pc, exitCode, stdinState, stdin, password, task, salt, mk,
                 hash_mk, dpk, cmp, cmpWork, stdout>>

\* mutant of HashDeriveDPKEnd: the protection key is derived from whatever the
\* other job has left in hash_mk
HashDeriveDPKEnd_chained ==
  /\ pc = "h_derive"
  /\ derive.dpk = "running"
  /\ dpk' = derive_dpk(hash_mk, salt[3])
  /\ derive' = [derive EXCEPT !.dpk = "done"]
  /\ UNCHANGED <<args, pc, exitCode, stdinState, stdin, password, task, salt,
                 mk, hash_mk, cmp, cmpWork, kdfCalls, stdout>>

HashDeriveDPKEnd ==
  /\ pc = "h_derive"
  /\ derive.dpk = "running"
  /\ dpk' = derive_dpk(mk, salt[3])
  /\ derive' = [derive EXCEPT !.dpk = "done"]
  /\ UNCHANGED <<args, pc, exitCode, stdinState, stdin, password, task, salt, mk,
                 hash_mk, cmp, cmpWork, kdfCalls, stdout>>

\* mutant of HashPrintHashMK: the protection key is printed in the verifier's place
HashPrintHashMK_dpk ==
  /\ pc = "h_derive"
  /\ derive.hash_mk = "done" /\ derive.dpk = "done"
  /\ stdout' = Append(stdout, dpk)
  /\ pc' = "h_print3"
  /\ UNCHANGED <<args, exitCode, stdinState, stdin, password, task, salt, mk, derive,
                 hash_mk, dpk, cmp, cmpWork, kdfCalls>>

\* the join has returned; println!("{hash_mk}");
HashPrintHashMK ==
  /\ pc = "h_derive"
  /\ derive.hash_mk = "done" /\ derive.dpk = "done"
  /\ stdout' = Append(stdout, hash_mk)
  /\ pc' = "h_print3"
  /\ UNCHANGED <<args, exitCode, stdinState, stdin, password, task, salt, mk, derive,
                 hash_mk, dpk, cmp, cmpWork, kdfCalls>>

\* for b in salt2 { print!("{:02x}", b); } println!();
HashPrintSalt2 ==
  /\ pc = "h_print3"
  /\ stdout' = Append(stdout, HexLine(salt[2]))
  /\ pc' = "h_print4"
  /\ UNCHANGED <<args, exitCode, stdinState, stdin, password, task, salt, mk, derive,
                 hash_mk, dpk, cmp, cmpWork, kdfCalls>>

\* println!("{dpk}");
HashPrintDPK ==
  /\ pc = "h_print4"
  /\ stdout' = Append(stdout, dpk)
  /\ pc' = "h_print5"
  /\ UNCHANGED <<args, exitCode, stdinState, stdin, password, task, salt, mk, derive,
                 hash_mk, dpk, cmp, cmpWork, kdfCalls>>

\* for b in salt3 { print!("{:02x}", b); } println!();
HashPrintSalt3 ==
  /\ pc = "h_print5"
  /\ stdout' = Append(stdout, HexLine(salt[3]))
  /\ pc' = "h_ret"
  /\ UNCHANGED <<args, exitCode, stdinState, stdin, password, task, salt, mk, derive,
                 hash_mk, dpk, cmp, cmpWork, kdfCalls>>

\* hash_password returns; std::process::exit(0)
HashReturn ==
  /\ pc = "h_ret"
  /\ Exit(ExitOk)
  /\ UNCHANGED <<args, stdinState, stdin, password, task, salt, mk, derive, hash_mk,
                 dpk, cmp, cmpWork, kdfCalls, stdout>>

Next ==
  \/ ArgsParse
  \/ ModeCheck
  \/ ReadPw
  \/ VerifyUnwrapSalts
  \/ VerifyCheckLen
  \/ \E i \in 1..3 : GetSalt(i)
  \/ VerifyJoinSalts
  \/ VerifyUnwrapPhash
  \/ VerifyMK
  \/ VerifyHashMK
  \/ VerifyCompare
  \/ VerifyPrintMatch
  \/ VerifyDPK
  \/ VerifyPrintDPK
  \/ VerifyPrintMismatch
  \/ VerifyReturn
  \/ HashForkSalts
  \/ \E i \in 1..3 : GenerateSalt(i)
  \/ HashMK
  \/ HashPrintSalt1
  \/ HashDeriveHashMKStart
  \/ HashDeriveHashMKEnd
  \/ HashDeriveDPKStart
  \/ HashDeriveDPKEnd
  \/ HashPrintHashMK
  \/ HashPrintSalt2
  \/ HashPrintDPK
  \/ HashPrintSalt3
  \/ HashReturn

Spec == Init /\ [][Next]_vars

(* ------------------------------ claims --------------------------------- *)

\* the five lines hash_password writes for password P and salts x, y, z
HashModeOutput(P, x, y, z) ==
  LET m == generate_hash_mk(P, x)
  IN  <<HexLine(x), generate_hash_mk(m, y), HexLine(y), derive_dpk(m, z), HexLine(z)>>

\* this run is verify mode, given the salts and the verifier that hash mode
\* wrote for password P under salts x, y, z
VerifiesHashRun(P, x, y, z) ==
  /\ args.verify /\ ~args.hash
  /\ args.s1 = Some(HashModeOutput(P, x, y, z)[1])
  /\ args.s2 = Some(HashModeOutput(P, x, y, z)[3])
  /\ args.s3 = Some(HashModeOutput(P, x, y, z)[5])
  /\ args.phash = Some(HashModeOutput(P, x, y, z)[2])

\* the salts whose printed form is the salt argument o
PrintedSalt == [s \in Salts |-> HexLine(s)]
SaltsPrintedAs(o) == {s \in Salts : o = Some(PrintedSalt[s])}

AllSaltsProduced == \A i \in 1..3 : salt[i] # <<>>
DpkCalls == {i \in 1..Len(kdfCalls) : kdfCalls[i].fn = "derive_dpk"}
SomeArgMissing ==
  ~IsSome(args.s1) \/ ~IsSome(args.s2) \/ ~IsSome(args.s3) \/ ~IsSome(args.phash)
AllSaltArgsPresent == IsSome(args.s1) /\ IsSome(args.s2) /\ IsSome(args.s3)
SomeSaltArgMisSized == \E i \in 1..3 : Len(SaltArg(i)) # HexLen
HasNonHex(s) == \E i \in 1..Len(s) : DigitVal(s[i]) < 0

\* C1: verify mode run on password P with the salts and the HashMK that hash
\* mode emits for P under the same salts reports "Match": the comparison is
\* never found unequal, and the run ends with exit code 0 and "Match" as its
\* first line.
C1_RoundTripMatch ==
  (args.verify /\ stdinState = "read" /\ (cmp # "none" \/ pc = "exited")) =>
    \A x \in SaltsPrintedAs(args.s1), y \in SaltsPrintedAs(args.s2),
       z \in SaltsPrintedAs(args.s3) :
      VerifiesHashRun(password, x, y, z)
        => /\ cmp # "unequal"
           /\ pc = "exited" => /\ exitCode = ExitOk
                               /\ Len(stdout) >= 1
                               /\ stdout[1] = MatchLine

C1_Witness ==
  /\ pc = "exited"
  /\ stdinState = "read"
  /\ password = <<97>>
  /\ VerifiesHashRun(password, SaltOf(1), SaltOf(0), SaltOf(1))
  /\ stdout # <<>> /\ stdout[1] = MatchLine

\* C2: the protection-key digest verify mode emits after "Match" equals the
\* DPK hash mode emits for the same password and the same salts.
C2_DpkAgreement ==
  (args.verify /\ stdinState = "read" /\ pc = "exited") =>
    \A x \in SaltsPrintedAs(args.s1), y \in SaltsPrintedAs(args.s2),
       z \in SaltsPrintedAs(args.s3) :
      VerifiesHashRun(password, x, y, z)
        => /\ Len(stdout) = 2
           /\ stdout[2] = HashModeOutput(password, x, y, z)[4]

\* C3: verify mode run on a password different from P, with the salts and
\* the HashMK hash mode emits for P, reports "Mismatch" and neither derives
\* nor emits a protection key.
C3_WrongPasswordRejected ==
  (args.verify /\ stdinState = "read") =>
    \A x \in SaltsPrintedAs(args.s1), y \in SaltsPrintedAs(args.s2),
       z \in SaltsPrintedAs(args.s3), P \in RefPasswords :
      (password # P /\ VerifiesHashRun(P, x, y, z))
        => /\ cmp # "equal"
           /\ DpkCalls = {}
           /\ dpk = <<>>
           /\ pc = "exited" => /\ exitCode = ExitOk
                               /\ stdout = <<MismatchLine>>

C3_Witness ==
  /\ pc = "exited"
  /\ stdinState = "read"
  /\ password = <<97, 97>>
  /\ VerifiesHashRun(<<97>>, SaltOf(1), SaltOf(1), SaltOf(0))
  /\ stdout = <<MismatchLine>>

\* C4: in verify mode a DPK derivation is started only after the comparison
\* has completed and found the digests equal; when they are unequal the only
\* derivations ever made are the two that precede the comparison.
C4_EqualityGatedDpk ==
  args.verify =>
    /\ DpkCalls # {} => cmp = "equal"
    /\ cmp # "none" => /\ Len(kdfCalls) >= 2
                       /\ kdfCalls[1].fn = "generate_hash_mk"
                       /\ kdfCalls[2].fn = "generate_hash_mk"
    /\ cmp = "unequal" => Len(kdfCalls) = 2

C4_Witness ==
  /\ args.verify
  /\ cmp = "unequal"
  /\ pc = "exited"
  /\ Len(kdfCalls) = 2

\* C5: a hash-mode run writes its lines in the order salt1 (hex), HashMK,
\* salt2 (hex), DPK, salt3 (hex) under every interleaving; a run that ends
\* with exit code 0 has written exactly these five lines, and a run that has
\* written five lines ends with exit code 0.
C5_HashOutputOrder ==
  args.hash =>
    LET expected == IF AllSaltsProduced
                    THEN HashModeOutput(password, salt[1], salt[2], salt[3])
                    ELSE <<>>
    IN  /\ Len(stdout) <= Len(expected)
        /\ stdout = SubSeq(expected, 1, Len(stdout))
        /\ (pc = "exited" /\ exitCode = ExitOk) => Len(stdout) = 5
        /\ Len(stdout) = 5 => /\ pc \in {"h_ret", "exited"}
                              /\ pc = "exited" => exitCode = ExitOk

C5_Witness ==
  /\ args.hash
  /\ pc = "exited"
  /\ exitCode = ExitOk
  /\ Len(stdout) = 5
  /\ salt[1] # salt[2]
  /\ kdfCalls[2].fn = "derive_dpk"

\* C6: a verify-mode run that has made the comparison writes "Match" and
\* then exactly one protection-key digest, or "Mismatch" and nothing more,
\* and in both cases ends with exit code 0.
C6_VerifyOutcomeShape ==
  (args.verify /\ cmp # "none") =>
    /\ cmp = "equal" =>
         /\ Len(stdout) <= 2
         /\ Len(stdout) >= 1 => stdout[1] = MatchLine
         /\ Len(stdout) = 2 => /\ stdout[2] = dpk
                               /\ \E i \in DpkCalls : kdfCalls[i].out = stdout[2]
    /\ cmp = "unequal" => (stdout = <<>> \/ stdout = <<MismatchLine>>)
    /\ pc = "exited" =>
         /\ exitCode = ExitOk
         /\ IF cmp = "equal" THEN Len(stdout) = 2 ELSE Len(stdout) = 1

C6_Witness ==
  /\ args.verify
  /\ pc = "exited"
  /\ cmp = "unequal"
  /\ stdout = <<MismatchLine>>
  /\ exitCode = ExitOk

\* C7: a run with both "hash" and "verify" selected, or with neither, ends
\* with exit code 64 without having read the password, produced a salt or
\* made a derivation.
C7_ModeSelection ==
  ((args.hash /\ args.verify) \/ (~args.hash /\ ~args.verify)) =>
    /\ stdinState = "unread"
    /\ \A i \in 1..3 : salt[i] = <<>>
    /\ kdfCalls = <<>>
    /\ pc = "exited" => exitCode = ExitUsage

\* C8: a verify-mode run in which one of s1, s2, s3 or phash is absent ends
\* with exit code 64 and makes no derivation.
C8_VerifyRequiredArgs ==
  (args.verify /\ ~args.hash /\ SomeArgMissing /\ stdinState # "failed") =>
    /\ kdfCalls = <<>>
    /\ pc = "exited" => exitCode = ExitUsage

\* C9: in verify mode with the three salt strings given, if one of them has
\* a length other than 32 then no salt is decoded and no derivation is made,
\* whatever the other salts hold, and the run, once the password has been
\* read, ends with exit code 64.
C9_LengthCheckedFirst ==
  (args.verify /\ ~args.hash /\ AllSaltArgsPresent /\ SomeSaltArgMisSized) =>
    /\ \A i \in 1..3 : task[i] = "idle" /\ salt[i] = <<>>
    /\ kdfCalls = <<>>
    /\ (pc = "exited" /\ stdinState = "read") => exitCode = ExitUsage

C9_Witness ==
  /\ args.verify
  /\ args.s1 = Some(NonHexStr)
  /\ args.s2 = Some(HexLine(SaltOf(1)))
  /\ args.s3 = Some(LongStr)
  /\ pc = "exited"
  /\ stdinState = "read"
  /\ exitCode = ExitUsage

\* C10: in verify mode a salt string of length 32 that holds a
\* non-hexadecimal character is rejected: the run ends with exit code 64 and
\* makes no derivation.
C10_MalformedHexIsUsageError ==
  ( /\ args.verify /\ ~args.hash
    /\ AllSaltArgsPresent /\ IsSome(args.phash)
    /\ ~SomeSaltArgMisSized
    /\ \E i \in 1..3 : HasNonHex(SaltArg(i))
    /\ stdinState # "failed" ) =>
    /\ kdfCalls = <<>>
    /\ pc = "exited" => exitCode = ExitUsage

\* C11: in hash mode, once the random source has failed in one of the three
\* salt jobs, under any interleaving, the process has ended with exit code 2,
\* the failed job has produced no salt, and no derivation has been made or
\* will be made (nothing changes after the failure).
EntropyFailed == \E i \in 1..3 : task[i] = "failed"

C11_EntropyFailureTerminal ==
  EntropyFailed =>
    /\ args.hash
    /\ pc = "exited"
    /\ exitCode = ExitIo
    /\ \A i \in 1..3 : task[i] = "failed" => salt[i] = <<>>
    /\ kdfCalls = <<>>
    /\ mk = <<>> /\ hash_mk = <<>> /\ dpk = <<>>
    /\ ~ENABLED Next

C11_Witness ==
  /\ task[3] = "failed"
  /\ task[1] = "done"
  /\ task[2] = "pending"
  /\ exitCode = ExitIo

\* C12: the comparison of HashMK' with phash does not stop at the first
\* mismatching byte: whenever the two have the same length it examines every
\* byte, however many leading bytes agree.
C12_ConstantTimeCompare ==
  (args.verify /\ cmp # "none" /\ Len(Unwrap(args.phash)) = Len(hash_mk))
    => cmpWork = Len(hash_mk)

\* the two profiles of the KDF adapter and its derive(input, salt, profile)
Authentication == <<2048, 8, 1>>
Protection == <<32768, 32, 1>>
kdf_derive(input, s, profile) == Digest(input, s, profile)
\* the profile a digest was produced under
ProfileOf(digest) == SubSeq(digest, 1, 3)

\* C13: in hash mode the HashMK and DPK jobs are forked only after the MK
\* derivation has completed, both take MK as input and neither takes the
\* other's result, and under every interleaving HashMK = kdf_derive(MK, salt2,
\* Authentication) and DPK = kdf_derive(MK, salt3, Protection), with MK =
\* kdf_derive(password, salt1, Authentication), are the values emitted.
C13_HashForkJoin ==
  args.hash =>
    LET MK == kdf_derive(password, salt[1], Authentication)
    IN  /\ derive.hash_mk # "idle" =>
             /\ mk = MK
             /\ kdfCalls[1].out = MK
        /\ \A i \in 2..Len(kdfCalls) : kdfCalls[i].input = mk
        /\ derive.hash_mk = "done" => hash_mk = kdf_derive(MK, salt[2], Authentication)
        /\ derive.dpk = "done" => dpk = kdf_derive(MK, salt[3], Protection)
        /\ Len(stdout) >= 2 => stdout[2] = kdf_derive(MK, salt[2], Authentication)
        /\ Len(stdout) >= 4 => stdout[4] = kdf_derive(MK, salt[3], Protection)

C13_Witness ==
  /\ args.hash
  /\ derive.dpk = "done"
  /\ derive.hash_mk = "running"
  /\ hash_mk = <<>>
  /\ dpk # <<>>
  /\ salt[2] # salt[3]

\* C14: verify mode reports "Match" exactly when phash equals
\* kdf_derive(kdf_derive(password, salt1, Authentication), salt2, Authentication),
\* and "Mismatch" otherwise; the condition does not involve salt3.
C14_MatchIsVerifierEquality ==
  (args.verify /\ cmp # "none") =>
    LET expected == kdf_derive(kdf_derive(password, salt[1], Authentication),
                           salt[2], Authentication)
        same == Unwrap(args.phash) = expected
    IN  /\ cmp = "equal" <=> same
        /\ stdout # <<>> => /\ stdout[1] = MatchLine <=> same
                            /\ stdout[1] = MismatchLine <=> ~same
        /\ pc = "exited" => stdout # <<>>

C14_Witness ==
  /\ args.verify
  /\ pc = "exited"
  /\ cmp = "equal"
  /\ salt[3] # salt[2]
  /\ stdout[1] = MatchLine

C16_ProfileAssignment ==
  /\ mk # <<>> => ProfileOf(mk) = Authentication
  /\ hash_mk # <<>> => ProfileOf(hash_mk) = Authentication
  /\ dpk # <<>> => ProfileOf(dpk) = Protection
  /\ \A i \in 1..Len(kdfCalls) :
       /\ kdfCalls[i].params = ProfileOf(kdfCalls[i].out)
       /\ ProfileOf(kdfCalls[i].out) =
            IF kdfCalls[i].fn = "derive_dpk" THEN Protection ELSE Authentication
       /\ args.verify => (kdfCalls[i].fn = "derive_dpk" <=> i = 3)
       /\ (args.hash /\ i = 1) => kdfCalls[i].fn = "generate_hash_mk"

C16_Witness ==
  /\ args.verify
  /\ pc = "exited"
  /\ Len(kdfCalls) = 3
  /\ ProfileOf(dpk) = Protection
  /\ ProfileOf(hash_mk) = Authentication

IsNewline(b) == b = 10 \/ b = 13

\* C17: the password used for derivation is the byte sequence read from
\* standard input with its maximal trailing run of CR and LF bytes removed:
\* a prefix of the input, kept byte for byte, that does not end in CR or LF
\* and is followed in the input by CR and LF bytes only.
C17_PasswordNormalisation ==
  stdinState = "read" =>
    /\ Len(password) <= Len(stdin)
    /\ password = SubSeq(stdin, 1, Len(password))
    /\ \A i \in (Len(password) + 1)..Len(stdin) : IsNewline(stdin[i])
    /\ password # <<>> => ~IsNewline(password[Len(password)])
    /\ \A i \in 1..Len(kdfCalls) :
         kdfCalls[i].input \in {password, mk}

C17_Witness ==
  /\ stdinState = "read"
  /\ stdin = <<97, 10, 97, 13, 10, 10>>
  /\ password = <<97, 10, 97>>
  /\ kdfCalls # <<>>
  /\ kdfCalls[1].input = <<97, 10, 97>>

\* C18: a 16-byte salt printed as hash mode prints it is 32 lowercase
\* hexadecimal characters, two per byte, and get_salt applied to that line
\* gives back the original 16 bytes.
IsLowerHex(c) == (c >= 48 /\ c <= 57) \/ (c >= 97 /\ c <= 102)

RoundTrips(line, s) ==
  /\ Len(s) = 16
  /\ Len(line) = 32
  /\ \A i \in 1..Len(line) : IsLowerHex(line[i])
  /\ get_salt(line) = s

C18_SaltRoundTrip ==
  args.hash =>
    /\ Len(stdout) >= 1 => RoundTrips(stdout[1], salt[1])
    /\ Len(stdout) >= 3 => RoundTrips(stdout[3], salt[2])
    /\ Len(stdout) >= 5 => RoundTrips(stdout[5], salt[3])

C18_Witness ==
  /\ args.hash
  /\ Len(stdout) = 5
  /\ salt[1] = SaltOf(1)
  /\ salt[3] = SaltOf(0)
  /\ get_salt(stdout[1]) = SaltOf(1)
  /\ get_salt(stdout[5]) = SaltOf(0)

\* C19: in hash mode nothing is on standard output until the three salts
\* have been generated and the MK derivation has completed, so a run ended
\* by an entropy failure has written no line; in verify mode nothing is on
\* standard output before the comparison, so a run ended by a salt-length or
\* salt-decoding failure has written no line.
C19_NoPartialOutput ==
  /\ (args.hash /\ stdout # <<>>) =>
       /\ \A i \in 1..3 : task[i] = "done" /\ salt[i] # <<>>
       /\ mk # <<>>
       /\ kdfCalls # <<>>
  /\ EntropyFailed => stdout = <<>>
  /\ (args.verify /\ stdout # <<>>) => cmp # "none"
  /\ (args.verify /\ pc = "exited" /\ exitCode # 0) => stdout = <<>>
  /\ (\E i \in 1..3 : task[i] = "panicked") => stdout = <<>>

C19_Witness ==
  /\ args.verify
  /\ pc = "exited"
  /\ task[2] = "panicked"
  /\ task[1] = "done"
  /\ stdout = <<>>

====
